---- MODULE Spec2Model ----
(***************************************************************************)
(* Grasp database and grasp search of packing_models                      *)
(* (src/pybullet_utils.py): find_grasp_in_db, add_grasp_in_db, dump_json,  *)
(* set_gripper_pose and get_grasp_poses.                                   *)
(*                                                                         *)
(* Numbers.  Lengths and angles are fixed-point integers in units of 1e-5  *)
(* (metres, radians); quaternion components are in units of 1e-4.  A       *)
(* position returned by a lookup is a rational <<num, den>> because the    *)
(* lookup may multiply it by scale / canonical_scale.  Scales are the      *)
(* positive numbers 1.0, 2.0, ... written 1, 2, ...  (a body without       *)
(* collision data, whose loaded scale is None, is not modelled).           *)
(*                                                                         *)
(* Names.  An instance name is a list of tokens, so that the test          *)
(* '::' in instance_name is computed: "obj::1" is <<"obj", "::", "1">>.    *)
(* The instance name None is the empty token list.                         *)
(***************************************************************************)
EXTENDS Integers, Sequences, FiniteSets, TLC

\* ------------------------------------------------------------------ bounds
MaxScale == 2
MaxTime == 2
MaxAdds == 3
MaxCalls == 3
MaxExtent == 3
MaxProcAdds == 2

\* ------------------------------------------------------------- input sets
NoName == <<>>
InstanceNames == {<<"obj">>, <<"obj", "::", "1">>}
Scales == 1..MaxScale
Datetimes == 1..MaxTime
PyNone == "<None>"

\* ------------------------------------------------------------ conversions
\* '::' in instance_name (line 497)
HasSep(instance_name) ==
  \E i \in 1..Len(instance_name) : instance_name[i] = "::"

\* str(scale): the key of an other_scales slot (lines 511, 543)
ScaleStr(scale) == [str |-> scale]

\* digits after the 4th dropped instead of rounded
NiceFloat4Truncated(ele) ==
  IF ele < 0 THEN 0 - (((0 - ele) \div 10) * 10) ELSE (ele \div 10) * 10

\* round(ele, 4) on a value in units of 1e-5: nearest multiple of 10,
\* an exact tie going to the even 4th digit
NiceFloat4(ele) ==
  LET a == IF ele < 0 THEN 0 - ele ELSE ele
      lo == (a \div 10) * 10
      r == a % 10
      m == IF r < 5 THEN lo
           ELSE IF r > 5 THEN lo + 10
           ELSE IF (lo \div 10) % 2 = 0 THEN lo ELSE lo + 10
  IN IF ele < 0 THEN 0 - m ELSE m

\* the orientation table of get_grasp_poses, keyed by face direction;
\* P/2 = 157080, P = 314159
Rots(ang) ==
  CASE ang = <<1, 0, 0>> ->
       <<<<157080, 0, -157080>>,
         <<157080, 314159, -157080>>,
         <<157080, -157080, -157080>>,
         <<157080, 157080, -157080>>>>
    [] ang = <<-1, 0, 0>> ->
       <<<<157080, 0, 157080>>,
         <<157080, 314159, 157080>>,
         <<157080, -157080, 157080>>,
         <<157080, 157080, 157080>>,
         <<-314159, -157080, 0>>,
         <<-314159, -157080, -314159>>>>
    [] ang = <<0, 1, 0>> ->
       <<<<0, 157080, -157080>>,
         <<0, -157080, 157080>>,
         <<157080, 314159, 0>>,
         <<157080, 0, 0>>>>
    [] ang = <<0, -1, 0>> ->
       <<<<0, 157080, 157080>>,
         <<0, -157080, -157080>>,
         <<-157080, 314159, 0>>,
         <<-157080, 0, 0>>>>
    [] ang = <<0, 0, 1>> ->
       <<<<314159, 0, 157080>>,
         <<314159, 0, -157080>>,
         <<314159, 0, 0>>,
         <<314159, 0, 314159>>>>
    [] ang = <<0, 0, -1>> ->
       <<<<0, 0, -157080>>,
         <<0, 0, 157080>>,
         <<0, 0, 0>>,
         <<0, 0, 314159>>>>

\* pp.quat_from_euler, evaluated with Bullet's formula on the triples of the
\* table above and on the 4-decimal triples that nice() stores for them
QuatFromEuler(e) ==
  CASE e = <<157080, 0, -157080>> -> <<5000, -5000, -5000, 5000>>
    [] e = <<157080, 314159, -157080>> -> <<5000, 5000, -5000, -5000>>
    [] e = <<-157080, 0, 157080>> -> <<-5000, -5000, 5000, 5000>>
    [] e = <<157080, -157080, -157080>> -> <<0, -7071, 0, 7071>>
    [] e = <<0, -157080, 0>> -> <<0, -7071, 0, 7071>>
    [] e = <<157080, 157080, -157080>> -> <<7071, 0, -7071, 0>>
    [] e = <<0, 157080, -314160>> -> <<7071, 0, -7071, 0>>
    [] e = <<157080, 0, 157080>> -> <<5000, 5000, 5000, 5000>>
    [] e = <<157080, 314159, 157080>> -> <<-5000, 5000, -5000, 5000>>
    [] e = <<-157080, 0, -157080>> -> <<-5000, 5000, -5000, 5000>>
    [] e = <<157080, -157080, 157080>> -> <<7071, 0, 7071, 0>>
    [] e = <<0, -157080, 314160>> -> <<7071, 0, 7071, 0>>
    [] e = <<157080, 157080, 157080>> -> <<0, 7071, 0, 7071>>
    [] e = <<0, 157080, 0>> -> <<0, 7071, 0, 7071>>
    [] e = <<-314159, -157080, 0>> -> <<-7071, 0, -7071, 0>>
    [] e = <<0, -157080, -314160>> -> <<-7071, 0, -7071, 0>>
    [] e = <<-314159, -157080, -314159>> -> <<0, 7071, 0, -7071>>
    [] e = <<0, -157080, -628320>> -> <<0, 7071, 0, -7071>>
    [] e = <<0, 157080, -157080>> -> <<5000, 5000, -5000, 5000>>
    [] e = <<0, -157080, 157080>> -> <<5000, -5000, 5000, 5000>>
    [] e = <<157080, 314159, 0>> -> <<0, 7071, -7071, 0>>
    [] e = <<-157080, 0, 314160>> -> <<0, -7071, 7071, 0>>
    [] e = <<157080, 0, 0>> -> <<7071, 0, 0, 7071>>
    [] e = <<0, 157080, 157080>> -> <<-5000, 5000, 5000, 5000>>
    [] e = <<0, -157080, -157080>> -> <<-5000, -5000, -5000, 5000>>
    [] e = <<-157080, 314159, 0>> -> <<0, 7071, 7071, 0>>
    [] e = <<157080, 0, 314160>> -> <<0, 7071, 7071, 0>>
    [] e = <<-157080, 0, 0>> -> <<-7071, 0, 0, 7071>>
    [] e = <<314159, 0, 157080>> -> <<7071, 7071, 0, 0>>
    [] e = <<314160, 0, 157080>> -> <<7071, 7071, 0, 0>>
    [] e = <<314159, 0, -157080>> -> <<7071, -7071, 0, 0>>
    [] e = <<314160, 0, -157080>> -> <<7071, -7071, 0, 0>>
    [] e = <<314159, 0, 0>> -> <<10000, 0, 0, 0>>
    [] e = <<314160, 0, 0>> -> <<10000, 0, 0, 0>>
    [] e = <<314159, 0, 314159>> -> <<0, 10000, 0, 0>>
    [] e = <<314160, 0, 314160>> -> <<0, 10000, 0, 0>>
    [] e = <<0, 0, -157080>> -> <<0, 0, -7071, 7071>>
    [] e = <<0, 0, 157080>> -> <<0, 0, 7071, 7071>>
    [] e = <<0, 0, 0>> -> <<0, 0, 0, 10000>>
    [] e = <<0, 0, 314159>> -> <<0, 0, 10000, 0>>
    [] e = <<0, 0, 314160>> -> <<0, 0, 10000, 0>>

\* pp.euler_from_quat, evaluated with Bullet's formula on the quaternions of
\* the candidates
EulerFromQuat(q) ==
  CASE q = <<5000, -5000, -5000, 5000>> -> <<157080, 0, -157080>>
    [] q = <<5000, 5000, -5000, -5000>> -> <<-157080, 0, 157080>>
    [] q = <<0, -7071, 0, 7071>> -> <<0, -157080, 0>>
    [] q = <<7071, 0, -7071, 0>> -> <<0, 157080, -314159>>
    [] q = <<5000, 5000, 5000, 5000>> -> <<157080, 0, 157080>>
    [] q = <<-5000, 5000, -5000, 5000>> -> <<-157080, 0, -157080>>
    [] q = <<7071, 0, 7071, 0>> -> <<0, -157080, 314159>>
    [] q = <<0, 7071, 0, 7071>> -> <<0, 157080, 0>>
    [] q = <<-7071, 0, -7071, 0>> -> <<0, -157080, -314159>>
    [] q = <<0, 7071, 0, -7071>> -> <<0, -157080, -628319>>
    [] q = <<5000, 5000, -5000, 5000>> -> <<0, 157080, -157080>>
    [] q = <<5000, -5000, 5000, 5000>> -> <<0, -157080, 157080>>
    [] q = <<0, 7071, -7071, 0>> -> <<-157080, 0, 314159>>
    [] q = <<7071, 0, 0, 7071>> -> <<157080, 0, 0>>
    [] q = <<-5000, 5000, 5000, 5000>> -> <<0, 157080, 157080>>
    [] q = <<-5000, -5000, -5000, 5000>> -> <<0, -157080, -157080>>
    [] q = <<0, 7071, 7071, 0>> -> <<157080, 0, 314159>>
    [] q = <<-7071, 0, 0, 7071>> -> <<-157080, 0, 0>>
    [] q = <<7071, 7071, 0, 0>> -> <<314159, 0, 157080>>
    [] q = <<7071, -7071, 0, 0>> -> <<314159, 0, -157080>>
    [] q = <<10000, 0, 0, 0>> -> <<314159, 0, 0>>
    [] q = <<0, 10000, 0, 0>> -> <<314159, 0, 314159>>
    [] q = <<0, 0, -7071, 7071>> -> <<0, 0, -157080>>
    [] q = <<0, 0, 7071, 7071>> -> <<0, 0, 157080>>
    [] q = <<0, 0, 0, 10000>> -> <<0, 0, 0>>
    [] q = <<0, 0, 10000, 0>> -> <<0, 0, 314159>>

\* ------------------------------------------------------------ pose helpers
\* the pose flattened but not rounded
Nice4Unrounded(g) ==
  LET e == EulerFromQuat(g.q)
  IN << g.p[1], g.p[2], g.p[3], e[1], e[2], e[3] >>

\* nice(g, 4) on a pose (point, quat): [x, y, z, roll, pitch, yaw], each
\* component rounded to 4 decimals
Nice4(g) ==
  LET e == EulerFromQuat(g.q)
  IN << NiceFloat4(g.p[1]), NiceFloat4(g.p[2]), NiceFloat4(g.p[3]),
        NiceFloat4(e[1]), NiceFloat4(e[2]), NiceFloat4(e[3]) >>

\* a stored number read back as a float
Real(x) == <<x, 1>>

\* the ratio taken the wrong way round
ScaleRealInverted(x, scale, canonical) == <<canonical * x[1], scale * x[2]>>

\* scale / all_data['scale'] * x
ScaleReal(x, scale, canonical) == <<scale * x[1], canonical * x[2]>>

\* a reader that knows the flat encoding and the (point, quat) pairs only
RewriteGraspsNoEulerPairs(data) ==
  IF Len(data[1]) = 6
  THEN [i \in DOMAIN data |->
          [p |-> <<Real(data[i][1]), Real(data[i][2]), Real(data[i][3])>>,
           q |-> QuatFromEuler(SubSeq(data[i], 4, 6))]]
  ELSE [i \in DOMAIN data |->
          [p |-> <<Real(data[i][1][1]), Real(data[i][1][2]), Real(data[i][1][3])>>,
           q |-> data[i][2]]]

\* rewrite_grasps: the three stored encodings, all returned as (point, quat)
RewriteGrasps(data) ==
  IF Len(data[1]) = 6
  THEN [i \in DOMAIN data |->
          [p |-> <<Real(data[i][1]), Real(data[i][2]), Real(data[i][3])>>,
           q |-> QuatFromEuler(SubSeq(data[i], 4, 6))]]
  ELSE IF Len(data[1][2]) = 3
  THEN [i \in DOMAIN data |->
          [p |-> <<Real(data[i][1][1]), Real(data[i][1][2]), Real(data[i][1][3])>>,
           q |-> QuatFromEuler(data[i][2])]]
  ELSE [i \in DOMAIN data |->
          [p |-> <<Real(data[i][1][1]), Real(data[i][1][2]), Real(data[i][1][3])>>,
           q |-> data[i][2]]]

\* ------------------------------------------------------------- the store
\* A store (a Python dict, which keeps insertion order) is a sequence of
\* items [k |-> instance name, v |-> entry]; an entry is a record with the
\* fields name, grasps, datetime, scale and, once added, other_scales (a
\* function from ScaleStr keys to grasp lists).
Keys(db) == {db[i].k : i \in DOMAIN db}

IndexOf(db, instance_name) ==
  CHOOSE i \in DOMAIN db : db[i].k = instance_name

Entry(db, instance_name) == db[IndexOf(db, instance_name)].v

NotFound == [some |-> FALSE, val |-> <<>>]

Some(v) == [some |-> TRUE, val |-> v]

\* a load that ignores the file
LoadDbEmpty(f) == <<>>

\* json.load(open(db_file)) if isfile(db_file) else {}
LoadDb(f) == IF f.exists THEN f.doc ELSE <<>>

\* the canonical branch (lines 498-503): the canonical list, rescaled when
\* the requested scale is not the canonical one
FoundCanonical(all_data, scale) ==
  LET data == all_data.grasps
  IN IF Len(data) > 0
     THEN LET found == RewriteGrasps(data)
          IN IF "scale" \in DOMAIN all_data /\ scale # all_data.scale
             THEN Some([i \in DOMAIN found |->
                    [p |-> << ScaleReal(found[i].p[1], scale, all_data.scale),
                              ScaleReal(found[i].p[2], scale, all_data.scale),
                              ScaleReal(found[i].p[3], scale, all_data.scale) >>,
                     q |-> found[i].q]])
             ELSE Some(found)
     ELSE NotFound

\* the alternate list rescaled like the canonical one
FoundOtherScaleRescaled(all_data, scale) ==
  IF "other_scales" \in DOMAIN all_data
     /\ ScaleStr(scale) \in DOMAIN all_data.other_scales
  THEN FoundCanonical([all_data EXCEPT
                         !.grasps = all_data.other_scales[ScaleStr(scale)]], scale)
  ELSE NotFound

\* the alternate-scale branch (lines 511-513)
FoundOtherScale(all_data, scale) ==
  IF "other_scales" \in DOMAIN all_data
     /\ ScaleStr(scale) \in DOMAIN all_data.other_scales
  THEN Some(RewriteGrasps(all_data.other_scales[ScaleStr(scale)]))
  ELSE NotFound

\* a lookup that takes the canonical list only for names without '::'
FindGraspInDbNoScaleTest(db, instance_name, scale) ==
  IF instance_name \in Keys(db)
  THEN LET all_data == Entry(db, instance_name)
       IN IF ~HasSep(instance_name)
          THEN FoundCanonical(all_data, scale)
          ELSE FoundOtherScale(all_data, scale)
  ELSE NotFound

\* the value `found` of find_grasp_in_db
FindGraspInDb(db, instance_name, scale) ==
  IF instance_name \in Keys(db)
  THEN LET all_data == Entry(db, instance_name)
       IN IF ~HasSep(instance_name)
             \/ ("scale" \in DOMAIN all_data /\ scale = all_data.scale)
          THEN FoundCanonical(all_data, scale)
          ELSE FoundOtherScale(all_data, scale)
  ELSE NotFound

\* sorted(keys.items(), key=lambda x: x[1]): a stable sort on 'datetime'
InsertByDatetime(item, s) ==
  LET n == Cardinality({i \in DOMAIN s : s[i].v.datetime <= item.v.datetime})
  IN SubSeq(s, 1, n) \o <<item>> \o SubSeq(s, n + 1, Len(s))

\* the store written in insertion order
SortByDatetimeSkipped(db) == db

RECURSIVE SortByDatetime(_)
SortByDatetime(db) ==
  IF db = <<>> THEN <<>>
  ELSE InsertByDatetime(db[Len(db)], SortByDatetime(SubSeq(db, 1, Len(db) - 1)))

\* dump_json: the document is written entry by entry in the order given
DumpJson(db) == [exists |-> TRUE, doc |-> db]

\* the upsert of an existing instance replacing its canonical entry
SetOtherScaleOverwrite(all_data, scale, add_grasps) ==
  [all_data EXCEPT !.grasps = add_grasps, !.scale = scale]

\* db[instance_name]['other_scales'][str(scale)] = add_grasps
SetOtherScale(all_data, scale, add_grasps) ==
  LET old == IF "other_scales" \in DOMAIN all_data
             THEN all_data.other_scales ELSE << >>
      key == ScaleStr(scale)
      new == [s \in (DOMAIN old) \cup {key} |->
                IF s = key THEN add_grasps ELSE old[s]]
  IN [f \in (DOMAIN all_data) \cup {"other_scales"} |->
        IF f = "other_scales" THEN new ELSE all_data[f]]

\* the canonical entry created by the first upsert of an instance
NewEntry(name, add_grasps, now, scale) ==
  [name |-> name, grasps |-> add_grasps, datetime |-> now, scale |-> scale]

\* an upsert that stores grasps under a missing instance name
AddGraspInDbStoresNone(db, f, instance_name, grasps, name, scale, now) ==
  LET add_grasps == [i \in DOMAIN grasps |-> Nice4(grasps[i])]
      declared == IF name = PyNone THEN "None" ELSE name
      db1 == IF instance_name \in Keys(db)
             THEN [db EXCEPT ![IndexOf(db, instance_name)].v =
                     SetOtherScale(@, scale, add_grasps)]
             ELSE Append(db, [k |-> instance_name,
                              v |-> NewEntry(declared, add_grasps, now, scale)])
  IN IF Len(add_grasps) = 0
     THEN [db |-> db, file |-> f, wrote |-> FALSE]
     ELSE [db |-> db1, file |-> DumpJson(SortByDatetime(db1)), wrote |-> TRUE]

\* an upsert that stores an empty grasp list like any other
AddGraspInDbStoresEmpty(db, f, instance_name, grasps, name, scale, now) ==
  LET add_grasps == [i \in DOMAIN grasps |-> Nice4(grasps[i])]
      declared == IF name = PyNone THEN "None" ELSE name
      db1 == IF instance_name \in Keys(db)
             THEN [db EXCEPT ![IndexOf(db, instance_name)].v =
                     SetOtherScale(@, scale, add_grasps)]
             ELSE Append(db, [k |-> instance_name,
                              v |-> NewEntry(declared, add_grasps, now, scale)])
  IN IF instance_name = NoName
     THEN [db |-> db, file |-> f, wrote |-> FALSE]
     ELSE [db |-> db1, file |-> DumpJson(SortByDatetime(db1)), wrote |-> TRUE]

\* add_grasp_in_db: the store after the call (mutated in place) and the file
\* after the call; `now` is the value of get_datetime()
AddGraspInDb(db, f, instance_name, grasps, name, scale, now) ==
  LET add_grasps == [i \in DOMAIN grasps |-> Nice4(grasps[i])]
      declared == IF name = PyNone THEN "None" ELSE name
      db1 == IF instance_name \in Keys(db)
             THEN [db EXCEPT ![IndexOf(db, instance_name)].v =
                     SetOtherScale(@, scale, add_grasps)]
             ELSE Append(db, [k |-> instance_name,
                              v |-> NewEntry(declared, add_grasps, now, scale)])
  IN IF instance_name = NoName \/ Len(add_grasps) = 0
     THEN [db |-> db, file |-> f, wrote |-> FALSE]
     ELSE [db |-> db1, file |-> DumpJson(SortByDatetime(db1)), wrote |-> TRUE]

\* ------------------------------------------------------------------ state
VARIABLES
  file,          \* the database file: [exists, doc]
  db,            \* the store held in memory by the caller (find_grasp_in_db's db)
  found,         \* the value `found` of the last find_grasp_in_db
  op,            \* the last database call and its arguments
  last_upsert,   \* history: the last add_grasp_in_db call that wrote the file
  first_upsert,  \* history: per instance name, the upsert that created its entry
  slot_upsert,   \* history: per instance name, the last list given for each slot
  n_adds,        \* number of add_grasp_in_db calls made
  add_in,        \* history: the arguments of the last add_grasp_in_db call
  pc,            \* position of get_grasp_poses: "idle", "search", "done"
  call,          \* arguments and scene of the current get_grasp_poses call
  faces,         \* the list `faces` of face points
  fi,            \* index of the face the loop is at
  ri,            \* index of the orientation the inner loop is at
  grasps,        \* the list `grasps` of accepted grasps
  validated,     \* history: the candidates passed to set_gripper_pose
  last_check,    \* history: the last set_gripper_pose call and its outcome
  gripper,       \* "open" or "closed"
  ret,           \* the value returned by get_grasp_poses
  fitted,        \* history: draw_fitted_box was called in this call
  add_arg,       \* history: the grasp list passed to add_grasp_in_db
  file0,         \* history: the file when the call started
  n_calls,       \* number of get_grasp_poses calls started
  sc,            \* the last sample_model_scale_from_constraint call
  procs,         \* per process sharing the file: position, arguments, its store
  overlap,       \* history: a lookup was made while another process was
                 \* between its lookup and the end of its upsert
  written,       \* history: the entries and slots the processes have written
  parsable,      \* the content of the file is a JSON document
  raised         \* the last database call raised an exception

dbVars == <<file, db, found>>
histVars == <<op, last_upsert, first_upsert, slot_upsert, n_adds, add_in>>
flowVars == <<pc, call, faces, fi, ri, grasps, validated, last_check, gripper,
              ret, fitted, add_arg, file0, n_calls>>
procVars == <<procs, overlap, written>>
fileVars == <<parsable, raised>>
auxVars == <<sc, procs, overlap, written, parsable, raised>>
vars == <<file, db, found, op, last_upsert, first_upsert, slot_upsert, n_adds,
          add_in,
          pc, call, faces, fi, ri, grasps, validated, last_check, gripper,
          ret, fitted, add_arg, file0, n_calls, sc, procs, overlap, written,
          parsable, raised>>

\* grasps given to the database calls: the pose of the spec's scenario, a
\* pose whose position is not a multiple of 1e-4, and one with an exact tie
\* (0.03125) and a quaternion with negative w
GraspA == [p |-> <<4000, 0, 2000>>, q |-> <<0, 0, 0, 10000>>]
GraspB == [p |-> <<4003, 0, 2000>>, q |-> <<7071, 0, 0, 7071>>]
GraspC == [p |-> <<3125, -6007, 0>>, q |-> <<5000, 5000, -5000, -5000>>]

\* the bodies whose grasps are stored: declared name and grasp list
StoredBodies == { [name |-> "bowl", gs |-> <<GraspA>>],
            [name |-> PyNone, gs |-> <<GraspB, GraspC>>],
            [name |-> "bowl", gs |-> <<>>] }

NoCall == [fn |-> "init", inst |-> NoName, scale |-> 0]
NoUpsert == [some |-> FALSE]
NoCheck == [some |-> FALSE]
NoSample == [called |-> FALSE]

\* the processes that share the database file
Procs == {"p1", "p2"}

\* a process that is not in a database call sequence
IdleProc == [pc |-> "start", inst |-> NoName, scale |-> 0, db |-> <<>>,
             found |-> NotFound, doc |-> <<>>]
IdleCall == [body |-> [inst |-> NoName], scale |-> 0, handle_filter |-> FALSE,
             cluttered |-> FALSE]

Init ==
  /\ file = [exists |-> FALSE, doc |-> <<>>]
  /\ db = <<>>
  /\ found = NotFound
  /\ op = NoCall
  /\ last_upsert = NoUpsert
  /\ first_upsert = [n \in InstanceNames |-> NoUpsert]
  /\ slot_upsert = [n \in InstanceNames |-> << >>]
  /\ n_adds = 0
  /\ add_in = NoUpsert
  /\ pc = "idle"
  /\ call = IdleCall
  /\ faces = <<>>
  /\ fi = 0
  /\ ri = 0
  /\ grasps = <<>>
  /\ validated = <<>>
  /\ last_check = NoCheck
  /\ gripper = "open"
  /\ ret = NotFound
  /\ fitted = FALSE
  /\ add_arg = NotFound
  /\ file0 = [exists |-> FALSE, doc |-> <<>>]
  /\ n_calls = 0
  /\ sc = NoSample
  /\ procs = [p \in Procs |-> IdleProc]
  /\ overlap = FALSE
  /\ written = {}
  /\ parsable = TRUE
  /\ raised = FALSE

\* ------------------------------------------- the database calls, on their own
\* get_grasp_db_file: create an empty store when there is no file
CreateDbFile(f) == IF f.exists THEN f ELSE [exists |-> TRUE, doc |-> <<>>]

GetGraspDbFile ==
  /\ ~file.exists
  /\ file' = CreateDbFile(file)
  /\ op' = [fn |-> "get_grasp_db_file", inst |-> NoName, scale |-> 0]
  /\ UNCHANGED <<db, found, last_upsert, first_upsert, slot_upsert, n_adds, add_in>>
  /\ UNCHANGED flowVars
  /\ UNCHANGED auxVars

Find(instance_name, scale) ==
  /\ db' = LoadDb(file)
  /\ found' = FindGraspInDb(db', instance_name, scale)
  /\ op' = [fn |-> "find", inst |-> instance_name, scale |-> scale]
  /\ UNCHANGED <<file, last_upsert, first_upsert, slot_upsert, n_adds, add_in>>
  /\ UNCHANGED flowVars
  /\ UNCHANGED auxVars

\* add_grasp_in_db on the store the caller got from find_grasp_in_db
Add(instance_name, gs, name, scale, now) ==
  /\ op.fn \in {"find", "add"}
  /\ n_adds < MaxAdds
  /\ LET r == AddGraspInDb(db, file, instance_name, gs, name, scale, now)
         created == instance_name \notin Keys(db)
         u == [some |-> TRUE, inst |-> instance_name, scale |-> scale,
               grasps |-> gs, created |-> created,
               canonical |-> IF created THEN scale
                             ELSE Entry(db, instance_name).scale]
         c == [some |-> TRUE, name |-> name, grasps |-> gs, now |-> now,
               scale |-> scale]
     IN /\ db' = r.db
        /\ file' = r.file
        /\ op' = [fn |-> IF r.wrote THEN "add" ELSE "add_noop",
                  inst |-> instance_name, scale |-> scale]
        /\ last_upsert' = IF r.wrote THEN u ELSE last_upsert
        /\ first_upsert' = IF r.wrote /\ created
                           THEN [first_upsert EXCEPT ![instance_name] = c]
                           ELSE first_upsert
        /\ slot_upsert' = IF r.wrote /\ ~created
                          THEN [slot_upsert EXCEPT ![instance_name] =
                                  [k \in (DOMAIN @) \cup {ScaleStr(scale)} |->
                                     IF k = ScaleStr(scale) THEN gs ELSE @[k]]]
                          ELSE slot_upsert
  /\ n_adds' = n_adds + 1
  /\ add_in' = [some |-> TRUE, inst |-> instance_name, grasps |-> gs]
  /\ UNCHANGED found
  /\ UNCHANGED flowVars
  /\ UNCHANGED auxVars

NextDb ==
  \/ GetGraspDbFile
  \/ \E n \in InstanceNames, s \in Scales : Find(n, s)
  \/ \E n \in InstanceNames \cup {NoName}, b \in StoredBodies,
        s \in Scales, t \in Datetimes : Add(n, b.gs, b.name, s, t)

SpecDb == Init /\ [][NextDb]_vars

\* ------------------------------------- two processes sharing the database file
\* Each process runs find_grasp_in_db, then add_grasp_in_db on the store the
\* lookup returned.  The file is read and written without any lock.

\* find_grasp_in_db by process p
PFind(p, instance_name, scale) ==
  /\ procs[p].pc \in {"start", "done"}
  /\ n_adds < MaxProcAdds
  /\ LET db1 == LoadDb(file)
     IN procs' = [procs EXCEPT ![p] =
                    [pc |-> "found", inst |-> instance_name, scale |-> scale,
                     db |-> db1,
                     found |-> FindGraspInDb(db1, instance_name, scale),
                     doc |-> <<>>]]
  /\ overlap' = (overlap \/ \E q \in Procs \ {p} : procs[q].pc \in {"found", "dump"})
  /\ UNCHANGED <<written, n_adds>>
  /\ UNCHANGED dbVars
  /\ UNCHANGED <<op, last_upsert, first_upsert, slot_upsert, add_in>>
  /\ UNCHANGED flowVars
  /\ UNCHANGED <<sc, parsable, raised>>

\* add_grasp_in_db by process p, up to os.remove(db_file) (lines 527-554)
PAdd(p, gs, name, now) ==
  /\ procs[p].pc = "found"
  /\ LET r == AddGraspInDb(procs[p].db, file, procs[p].inst, gs, name,
                           procs[p].scale, now)
         w == [inst |-> procs[p].inst, scale |-> procs[p].scale,
               canonical |-> procs[p].inst \notin Keys(procs[p].db)]
     IN IF r.wrote
        THEN /\ procs' = [procs EXCEPT ![p].pc = "dump", ![p].db = r.db,
                                       ![p].doc = r.file.doc]
             /\ file' = [exists |-> FALSE, doc |-> <<>>]
             /\ written' = written \cup {w}
        ELSE /\ procs' = [procs EXCEPT ![p].pc = "done"]
             /\ UNCHANGED <<file, written>>
  /\ n_adds' = n_adds + 1
  /\ UNCHANGED <<db, found, overlap>>
  /\ UNCHANGED <<op, last_upsert, first_upsert, slot_upsert, add_in>>
  /\ UNCHANGED flowVars
  /\ UNCHANGED <<sc, parsable, raised>>

\* dump_json by process p (line 555)
PDump(p) ==
  /\ procs[p].pc = "dump"
  /\ file' = DumpJson(procs[p].doc)
  /\ procs' = [procs EXCEPT ![p].pc = "done"]
  /\ UNCHANGED <<db, found, overlap, written>>
  /\ UNCHANGED histVars
  /\ UNCHANGED flowVars
  /\ UNCHANGED <<sc, parsable, raised>>

NextProcs ==
  \/ \E p \in Procs, n \in InstanceNames, s \in Scales : PFind(p, n, s)
  \/ \E p \in Procs, b \in StoredBodies, t \in Datetimes : PAdd(p, b.gs, b.name, t)
  \/ \E p \in Procs : PDump(p)

SpecProcs == Init /\ [][NextProcs]_vars

\* ------------------------------------ a database file left by earlier runs
\* The file outlives the process: it can hold entries written in the older
\* encodings, and its content need not be a JSON document.

\* stores written by earlier versions: a flat list; (point, euler) pairs in
\* an entry without 'scale'; (point, quat) pairs with a slot of
\* (point, euler) pairs
LegacyStores ==
  << << [k |-> <<"obj">>,
         v |-> [name |-> "bowl", datetime |-> 1, scale |-> 1,
                grasps |-> << <<4000, 0, 2000, 157080, 0, 0>>,
                              <<0, 4000, 2000, 0, 0, 314160>> >>]] >>,
     << [k |-> <<"obj">>,
         v |-> [name |-> "bowl", datetime |-> 1,
                grasps |-> << << <<4000, 0, 2000>>, <<0, 157080, 0>> >> >>]] >>,
     << [k |-> <<"obj", "::", "1">>,
         v |-> [name |-> "None", datetime |-> 1, scale |-> 1,
                grasps |-> << << <<4000, 0, 2000>>, <<5000, 5000, 5000, 5000>> >>,
                              << <<0, 4000, 2000>>, <<0, 0, 0, 10000>> >> >>,
                other_scales |->
                  [k \in {ScaleStr(MaxScale)} |->
                     << << <<8000, 0, 4000>>, <<0, 0, 157080>> >> >>]]] >> >>

\* the file found when the program starts: a store of an earlier version, or
\* content that json.load rejects
ExistingFile(i, ok) ==
  /\ op.fn = "init"
  /\ ~file.exists
  /\ file' = [exists |-> TRUE, doc |-> IF ok THEN LegacyStores[i] ELSE <<>>]
  /\ parsable' = ok
  /\ op' = [fn |-> "existing_file", inst |-> NoName, scale |-> 0]
  /\ UNCHANGED <<db, found, raised>>
  /\ UNCHANGED <<last_upsert, first_upsert, slot_upsert, n_adds, add_in>>
  /\ UNCHANGED flowVars
  /\ UNCHANGED <<sc, procs, overlap, written>>

\* find_grasp_in_db: json.load (line 478) raises on content that is not JSON
\* and the exception leaves find_grasp_in_db
FindFile(instance_name, scale) ==
  /\ IF file.exists /\ ~parsable
     THEN /\ raised' = TRUE
          /\ UNCHANGED <<db, found>>
     ELSE /\ raised' = FALSE
          /\ db' = LoadDb(file)
          /\ found' = FindGraspInDb(db', instance_name, scale)
  /\ op' = [fn |-> "find", inst |-> instance_name, scale |-> scale]
  /\ UNCHANGED <<file, parsable>>
  /\ UNCHANGED <<last_upsert, first_upsert, slot_upsert, n_adds, add_in>>
  /\ UNCHANGED flowVars
  /\ UNCHANGED <<sc, procs, overlap, written>>

\* add_grasp_in_db on the store a find_grasp_in_db returned
AddFile(instance_name, gs, name, scale, now) ==
  /\ op.fn \in {"find", "add"}
  /\ ~raised
  /\ n_adds < MaxAdds
  /\ LET r == AddGraspInDb(db, file, instance_name, gs, name, scale, now)
     IN /\ db' = r.db
        /\ file' = r.file
        /\ parsable' = (r.wrote \/ parsable)
        /\ op' = [fn |-> IF r.wrote THEN "add" ELSE "add_noop",
                  inst |-> instance_name, scale |-> scale]
  /\ n_adds' = n_adds + 1
  /\ add_in' = [some |-> TRUE, inst |-> instance_name, grasps |-> gs]
  /\ UNCHANGED <<found, raised>>
  /\ UNCHANGED <<last_upsert, first_upsert, slot_upsert>>
  /\ UNCHANGED flowVars
  /\ UNCHANGED <<sc, procs, overlap, written>>

NextFile ==
  \/ \E i \in DOMAIN LegacyStores, ok \in BOOLEAN : ExistingFile(i, ok)
  \/ \E n \in InstanceNames, s \in Scales : FindFile(n, s)
  \/ \E n \in InstanceNames, b \in StoredBodies, s \in Scales, t \in Datetimes :
       AddFile(n, b.gs, b.name, s, t)

SpecFile == Init /\ [][NextFile]_vars

\* ---------------------------------------------------------- the grasp search
\* grasp_length=0.02 (line 630), in units of 1e-5 m
GraspLength == 2000

\* the closed-gripper threshold 0.01 (line 623)
GripperMinQpos == 1000

\* The bodies of the scene.  `extent` is the fitted box of the body loaded at
\* scale 1.0 (the box of a body loaded at scale s is s times as large).  The
\* other fields are the answers of the simulation for a candidate on face
\* number f with orientation number r: IK fails on the faces in
\* `unreachable`; the open gripper collides for the orientations in `blocked`;
\* the closed gripper touches nothing for the orientations in `untouched`; it
\* closes on (almost) nothing for the orientations in `slipping`.
SceneBodies ==
  { [inst |-> <<"obj">>, name |-> "bowl", extent |-> <<16000, 16000, 8000>>,
     unreachable |-> {6}, blocked |-> {2}, untouched |-> {3}, slipping |-> {4}],
    [inst |-> <<"obj", "::", "1">>, name |-> PyNone,
     extent |-> <<30000, 10000, 10006>>,
     unreachable |-> {}, blocked |-> {1, 3}, untouched |-> {}, slipping |-> {2}],
    [inst |-> NoName, name |-> "cup", extent |-> <<8000, 12000, 20000>>,
     unreachable |-> {3, 6}, blocked |-> {}, untouched |-> {4}, slipping |-> {}] }

\* robot.ikfast(...) is not None
IkSolved(body, f, r) == f \notin body.unreachable

\* robot.is_colliding(pick_q); in a cluttered scene the robot always collides
IsColliding(body, cluttered, f, r) == cluttered \/ r \in body.blocked

\* the contacts of the closed gripper with the body are not empty
TouchesBody(body, f, r) == r \notin body.untouched

\* the positions of the two gripper joints after closing
GripperQpos(body, f, r) ==
  IF r \in body.slipping THEN <<400, 500>>
  ELSE IF r % 2 = 1 THEN <<500, 500>> ELSE <<2000, 2000>>

Sign(x) == IF x > 0 THEN 1 ELSE IF x < 0 THEN 0 - 1 ELSE 0

Magnitude(x) == IF x < 0 THEN 0 - x ELSE x

\* new_point[which_dim] -= np.sign(new_point[which_dim]) * dz
ShrinkPoint(point, dz) ==
  [k \in 1..3 |-> IF point[k] # 0 THEN point[k] - Sign(point[k]) * dz
                  ELSE point[k]]

\* the open-gripper collision check left out
SetGripperPoseNoCollisionCheck(body, cluttered, f, r, grasp_pose) ==
  LET grasp == [p |-> ShrinkPoint(grasp_pose.p, 0), q |-> grasp_pose.q]
      qpos == GripperQpos(body, f, r)
  IN IF ~IkSolved(body, f, r)
     THEN [grasp |-> NotFound, gripper |-> "open",
           steps |-> <<"open_gripper", "ikfast">>]
     ELSE IF ~TouchesBody(body, f, r)
     THEN [grasp |-> NotFound, gripper |-> "closed",
           steps |-> <<"open_gripper", "ikfast", "close_gripper", "get_contact">>]
     ELSE IF Magnitude(qpos[1] + qpos[2]) < GripperMinQpos
     THEN [grasp |-> NotFound, gripper |-> "closed",
           steps |-> <<"open_gripper", "ikfast", "close_gripper", "get_contact",
                       "get_qpos">>]
     ELSE [grasp |-> Some(grasp), gripper |-> "closed",
           steps |-> <<"open_gripper", "ikfast", "close_gripper", "get_contact",
                       "get_qpos">>]

\* set_gripper_pose with lengths = [0]: the grasp returned (or None), the
\* state the gripper is left in and the robot calls made, in order
SetGripperPose(body, cluttered, f, r, grasp_pose) ==
  LET grasp == [p |-> ShrinkPoint(grasp_pose.p, 0), q |-> grasp_pose.q]
      qpos == GripperQpos(body, f, r)
  IN IF ~IkSolved(body, f, r)
     THEN [grasp |-> NotFound, gripper |-> "open",
           steps |-> <<"open_gripper", "ikfast">>]
     ELSE IF IsColliding(body, cluttered, f, r)
     THEN [grasp |-> NotFound, gripper |-> "open",
           steps |-> <<"open_gripper", "ikfast", "is_colliding">>]
     ELSE IF ~TouchesBody(body, f, r)
     THEN [grasp |-> NotFound, gripper |-> "closed",
           steps |-> <<"open_gripper", "ikfast", "is_colliding", "close_gripper",
                       "get_contact">>]
     ELSE IF Magnitude(qpos[1] + qpos[2]) < GripperMinQpos
     THEN [grasp |-> NotFound, gripper |-> "closed",
           steps |-> <<"open_gripper", "ikfast", "is_colliding", "close_gripper",
                       "get_contact", "get_qpos">>]
     ELSE [grasp |-> Some(grasp), gripper |-> "closed",
           steps |-> <<"open_gripper", "ikfast", "is_colliding", "close_gripper",
                       "get_contact", "get_qpos">>]

\* pp.get_aabb_extent of the box fitted to the body loaded at `scale`
FittedExtent(body, scale) == [k \in 1..3 |-> scale * body.extent[k]]

\* the face points left without the grasp length
FacePointsNoLength(extent, dist) ==
  LET pos == << <<extent[1] \div 2, 0, 0>>,
                <<0, extent[2] \div 2, 0>>,
                <<0, 0, extent[3] \div 2>> >>
  IN pos \o [i \in 1..3 |-> [k \in 1..3 |-> 0 - pos[i][k]]]

\* faces=None (lines 669-671): the three positive face points, then minus(0, f)
\* of each
FacePoints(extent, dist) ==
  LET pos == << <<extent[1] \div 2 + dist, 0, 0>>,
                <<0, extent[2] \div 2 + dist, 0>>,
                <<0, 0, extent[3] \div 2 + dist>> >>
  IN pos \o [i \in 1..3 |-> [k \in 1..3 |-> 0 - pos[i][k]]]

Max3(d) ==
  IF d[1] >= d[2] /\ d[1] >= d[3] THEN d[1]
  ELSE IF d[2] >= d[3] THEN d[2] ELSE d[3]

\* the filter marking the longest dimension instead of the other ones
LongestFilterAligned(dimensions) ==
  [k \in 1..3 |-> IF dimensions[k] = Max3(dimensions) THEN 1 ELSE 0]

\* filter = [int(x != max_value) for x in dimensions] (lines 676-677)
LongestFilter(dimensions) ==
  [k \in 1..3 |-> IF dimensions[k] # Max3(dimensions) THEN 1 ELSE 0]

\* p / np.linalg.norm(p), for a point on one axis (the norm is then the
\* magnitude of its one non-zero coordinate)
UnitVector(f) ==
  LET norm == Magnitude(f[1]) + Magnitude(f[2]) + Magnitude(f[3])
  IN [k \in 1..3 |-> f[k] \div norm]

\* on_longest (line 694)
OnLongest(f, dimensions) ==
  LET p == UnitVector(f)
      filter == LongestFilter(dimensions)
  IN filter[1] * p[1] + filter[2] * p[2] + filter[3] * p[3] # 0

\* the face is skipped (lines 695-696)
SkipsFace(f, dimensions, handle_filter) ==
  handle_filter /\ ~OnLongest(f, dimensions)

\* pp.multiply(pp.Pose(point=f), pp.Pose(euler=r)): the first pose has no
\* rotation and the second no translation
CandidatePose(f, r) == [p |-> f, q |-> QuatFromEuler(r)]

\* the search stopping at the first rejected candidate
AfterCandidateAbort(f, r, n_rots, n_faces, accepted) ==
  IF ~accepted THEN <<n_faces + 1, 1>>
  ELSE IF r < n_rots THEN <<f, r + 1>> ELSE <<f + 1, 1>>

\* the loops of lines 689 and 702: the face and orientation after candidate
\* (f, r), whether or not it was accepted
AfterCandidate(f, r, n_rots, n_faces, accepted) ==
  IF r < n_rots THEN <<f, r + 1>> ELSE <<f + 1, 1>>

\* the lookup never counted as a hit
CacheHitNever(f) == FALSE

\* found is not None (line 651)
CacheHit(f) == f.some

\* get_grasp_poses up to the lookup (lines 632-662), on a hit: the cached
\* grasps are returned
LookupHit(body, scale, handle_filter, cluttered) ==
  /\ pc \in {"idle", "done"}
  /\ n_calls < MaxCalls
  /\ LET f1 == CreateDbFile(file)
         db1 == LoadDb(f1)
         found1 == FindGraspInDb(db1, body.inst, scale)
     IN /\ CacheHit(found1)
        /\ file' = f1
        /\ db' = db1
        /\ found' = found1
        /\ ret' = found1
  /\ pc' = "done"
  /\ call' = [body |-> body, scale |-> scale, handle_filter |-> handle_filter,
              cluttered |-> cluttered]
  /\ faces' = <<>>
  /\ fi' = 0
  /\ ri' = 0
  /\ grasps' = <<>>
  /\ validated' = <<>>
  /\ last_check' = NoCheck
  /\ fitted' = FALSE
  /\ add_arg' = NotFound
  /\ file0' = file
  /\ n_calls' = n_calls + 1
  /\ UNCHANGED gripper
  /\ UNCHANGED histVars
  /\ UNCHANGED auxVars

\* get_grasp_poses up to the face list (lines 632-687), on a miss: the box is
\* fitted and the face points are computed
LookupMiss(body, scale, handle_filter, cluttered) ==
  /\ pc \in {"idle", "done"}
  /\ n_calls < MaxCalls
  /\ LET f1 == CreateDbFile(file)
         db1 == LoadDb(f1)
         found1 == FindGraspInDb(db1, body.inst, scale)
     IN /\ ~CacheHit(found1)
        /\ file' = f1
        /\ db' = db1
        /\ found' = found1
  /\ pc' = "search"
  /\ call' = [body |-> body, scale |-> scale, handle_filter |-> handle_filter,
              cluttered |-> cluttered]
  /\ fitted' = TRUE
  /\ faces' = FacePoints(FittedExtent(body, scale), GraspLength)
  /\ fi' = 1
  /\ ri' = 1
  /\ grasps' = <<>>
  /\ validated' = <<>>
  /\ last_check' = NoCheck
  /\ ret' = NotFound
  /\ add_arg' = NotFound
  /\ file0' = file
  /\ n_calls' = n_calls + 1
  /\ UNCHANGED gripper
  /\ UNCHANGED histVars
  /\ UNCHANGED auxVars

\* a face that the handle filter skips (lines 689-696)
SkipFace ==
  /\ pc = "search"
  /\ fi <= Len(faces)
  /\ SkipsFace(faces[fi], FittedExtent(call.body, call.scale), call.handle_filter)
  /\ fi' = fi + 1
  /\ ri' = 1
  /\ UNCHANGED <<pc, call, faces, grasps, validated, last_check, gripper, ret,
                 fitted, add_arg, file0, n_calls>>
  /\ UNCHANGED dbVars
  /\ UNCHANGED histVars
  /\ UNCHANGED auxVars

\* one candidate of a retained face (lines 698-707): it is built, passed to
\* set_gripper_pose and appended to grasps when accepted
ValidateCandidate ==
  /\ pc = "search"
  /\ fi <= Len(faces)
  /\ ~SkipsFace(faces[fi], FittedExtent(call.body, call.scale), call.handle_filter)
  /\ LET rots == Rots(UnitVector(faces[fi]))
         grasp == CandidatePose(faces[fi], rots[ri])
         res == SetGripperPose(call.body, call.cluttered, fi, ri, grasp)
         nxt == AfterCandidate(fi, ri, Len(rots), Len(faces), res.grasp.some)
     IN /\ grasps' = IF res.grasp.some THEN Append(grasps, res.grasp.val)
                     ELSE grasps
        /\ validated' = Append(validated, [f |-> fi, r |-> ri, g |-> grasp,
                                           ok |-> res.grasp.some])
        /\ last_check' = [some |-> TRUE, f |-> fi, r |-> ri, g |-> grasp,
                          grasp |-> res.grasp, steps |-> res.steps]
        /\ gripper' = res.gripper
        /\ fi' = nxt[1]
        /\ ri' = nxt[2]
  /\ UNCHANGED <<pc, call, faces, ret, fitted, add_arg, file0, n_calls>>
  /\ UNCHANGED dbVars
  /\ UNCHANGED histVars
  /\ UNCHANGED auxVars

\* the end of get_grasp_poses (lines 722-728): the grasps are stored and
\* returned
StoreAndReturn(now) ==
  /\ pc = "search"
  /\ fi > Len(faces)
  /\ LET r == AddGraspInDb(db, file, call.body.inst, grasps, call.body.name,
                           call.scale, now)
     IN /\ db' = r.db
        /\ file' = r.file
  /\ add_arg' = Some(grasps)
  /\ ret' = Some(grasps)
  /\ pc' = "done"
  /\ UNCHANGED <<found, call, faces, fi, ri, grasps, validated, last_check,
                 gripper, fitted, file0, n_calls>>
  /\ UNCHANGED histVars
  /\ UNCHANGED auxVars

Next ==
  \/ \E b \in SceneBodies, s \in Scales, h \in BOOLEAN, c \in BOOLEAN :
       LookupHit(b, s, h, c)
  \/ \E b \in SceneBodies, s \in Scales, h \in BOOLEAN, c \in BOOLEAN :
       LookupMiss(b, s, h, c)
  \/ SkipFace
  \/ ValidateCandidate
  \/ \E t \in Datetimes : StoreAndReturn(t)

Spec == Init /\ [][Next]_vars

\* ------------------------------------------------------ the scale sampler
\* (src/assets.py)  Bounds and extents are lengths in one unit (0.01 m); a
\* scale is a rational <<num, den>> with den > 0.

\* the size constraints of `models`, for some of its categories
ModelCategories == {"Phone", "Remote", "FoldingKnife", "Camera", "Suitcase"}

Constraints(category) ==
  CASE category = "Phone" -> ("length-range" :> <<18, 20>>)
    [] category = "Remote" ->
         ("length-range" :> <<22, 24>>) @@ ("width-range" :> <<0, 6>>)
    [] category = "FoldingKnife" ->
         ("length-range" :> <<6, 12>>) @@ ("width-range" :> <<6, 12>>)
    [] category = "Camera" -> ("height-range" :> <<10, 12>>)
    [] category = "Suitcase" -> ("y-range" :> <<30, 40>>)

\* the categories asked for: those above and one that `models` does not hold
AskedCategories == ModelCategories \cup {"Bandu"}

\* the natural extents get_model_natural_extent returns
NaturalExtents == (1..MaxExtent) \X (1..MaxExtent) \X (1..MaxExtent)

\* the values u of the draw low + (high - low) * u, 0 <= u < 1
UniformDraws == {<<0, 1>>, <<1, 2>>, <<3, 4>>}

RatLeq(a, b) == a[1] * b[2] <= b[1] * a[2]

RatMax(S) == CHOOSE a \in S : \A b \in S : RatLeq(b, a)

RatMin(S) == CHOOSE a \in S : \A b \in S : RatLeq(a, b)

\* length and width never swapped
AxisKeysFixed(extent) ==
  ("length-range" :> 1) @@ ("width-range" :> 2) @@ ("height-range" :> 3)
  @@ ("x-range" :> 1) @@ ("y-range" :> 2)

\* keys (lines 192-196), with axes numbered from 1
AxisKeys(extent) ==
  IF extent[1] < extent[2]
  THEN ("length-range" :> 2) @@ ("width-range" :> 1) @@ ("height-range" :> 3)
       @@ ("x-range" :> 1) @@ ("y-range" :> 2)
  ELSE ("length-range" :> 1) @@ ("width-range" :> 2) @@ ("height-range" :> 3)
       @@ ("x-range" :> 1) @@ ("y-range" :> 2)

\* criteria (line 197)
Criteria(category, extent) ==
  (DOMAIN Constraints(category)) \cap (DOMAIN AxisKeys(extent))

\* scale_range after the loop of lines 201-205
ScaleRange(category, extent) ==
  LET keys == AxisKeys(extent)
      criteria == Criteria(category, extent)
      R(k, i) == <<Constraints(category)[k][i], extent[keys[k]]>>
  IN << RatMax({R(k, 1) : k \in criteria}), RatMin({R(k, 2) : k \in criteria}) >>

\* a draw that is refused, with scale 1, when the bounds are inverted
UniformGuarded(low, high, u) ==
  IF RatLeq(low, high)
  THEN << low[1] * high[2] * u[2] + (high[1] * low[2] - low[1] * high[2]) * u[1],
          low[2] * high[2] * u[2] >>
  ELSE <<1, 1>>

\* np.random.uniform(low, high) = low + (high - low) * u; numpy does not
\* compare low with high
Uniform(low, high, u) ==
  << low[1] * high[2] * u[2] + (high[1] * low[2] - low[1] * high[2]) * u[1],
     low[2] * high[2] * u[2] >>

\* the value returned by sample_model_scale_from_constraint
SampleModelScale(category, extent, u) ==
  IF category \notin ModelCategories THEN <<1, 1>>
  ELSE IF Criteria(category, extent) = {} THEN <<1, 1>>
  ELSE LET scale_range == ScaleRange(category, extent)
       IN Uniform(scale_range[1], scale_range[2], u)

\* one call of sample_model_scale_from_constraint
SampleModelScaleCall(category, extent, u) ==
  /\ sc' = [called |-> TRUE, category |-> category, extent |-> extent,
            scale |-> SampleModelScale(category, extent, u)]
  /\ UNCHANGED dbVars
  /\ UNCHANGED histVars
  /\ UNCHANGED flowVars
  /\ UNCHANGED procVars
  /\ UNCHANGED fileVars

NextScale ==
  \E category \in AskedCategories, extent \in NaturalExtents, u \in UniformDraws :
    SampleModelScaleCall(category, extent, u)

SpecScale == Init /\ [][NextScale]_vars

\* ------------------------------------------------- properties of the store
Abs(x) == IF x < 0 THEN 0 - x ELSE x

\* two quaternions equal to 4 decimals
QuatClose(a, b) == \A k \in 1..4 : Abs(a[k] - b[k]) <= 1

\* q and -q are the same orientation
SameRotation(a, b) ==
  QuatClose(a, b) \/ QuatClose(a, [k \in 1..4 |-> 0 - b[k]])

HasSlot(all_data, scale) ==
  "other_scales" \in DOMAIN all_data
  /\ ScaleStr(scale) \in DOMAIN all_data.other_scales

\* found holds the stored list with every position multiplied by s1/s0 and
\* the stored orientation
IsRescaled(f, stored, s1, s0) ==
  /\ f.some
  /\ Len(f.val) = Len(stored)
  /\ \A i \in DOMAIN stored :
       /\ \A k \in 1..3 :
            f.val[i].p[k][1] * s0 = s1 * stored[i][k] * f.val[i].p[k][2]
       /\ f.val[i].q = QuatFromEuler(SubSeq(stored[i], 4, 6))

\* found holds the stored list as it is
IsUnscaled(f, stored) == IsRescaled(f, stored, 1, 1)

\* the case of C1: a lookup of a stored instance at a scale that is neither
\* the canonical one nor an alternate slot
ForeignScaleLookup ==
  /\ op.fn = "find"
  /\ op.inst \in Keys(db)
  /\ op.scale # Entry(db, op.inst).scale
  /\ ~HasSlot(Entry(db, op.inst), op.scale)

\* C1 as stated: for every instance name, a lookup at a scale s1 that is not
\* the canonical scale s0 and has no alternate slot returns every stored grasp
\* with its position multiplied by s1/s0 and its orientation unchanged.
C1_RescaleEveryName ==
  ForeignScaleLookup =>
    IsRescaled(found, Entry(db, op.inst).grasps, op.scale,
               Entry(db, op.inst).scale)

\* C1 amended: the rescaling law holds for the instance names that do not
\* contain '::'; for a name that contains '::' the same lookup finds nothing.
C1_RescaleObjectNames ==
  ForeignScaleLookup =>
    IF HasSep(op.inst)
    THEN found = NotFound
    ELSE IsRescaled(found, Entry(db, op.inst).grasps, op.scale,
                    Entry(db, op.inst).scale)

\* the scenario of the spec on a name without '::': (0.04, 0, 0.02) stored at
\* scale 1.0 and looked up at 2.0 comes back as (0.08, 0, 0.04)
C1_Witness ==
  /\ ForeignScaleLookup
  /\ op.inst = <<"obj">>
  /\ op.scale = 2
  /\ Entry(db, op.inst).scale = 1
  /\ found.some
  /\ found.val[1].p = << <<8000, 1>>, <<0, 1>>, <<4000, 1>> >>
  /\ found.val[1].q = <<0, 0, 0, 10000>>

\* found equals the list gs up to 4-decimal rounding, as poses
RoundTrips(f, gs) ==
  /\ f.some
  /\ Len(f.val) = Len(gs)
  /\ \A i \in DOMAIN gs :
       /\ \A k \in 1..3 :
            Abs(f.val[i].p[k][1] - gs[i].p[k] * f.val[i].p[k][2])
              <= 5 * f.val[i].p[k][2]
       /\ SameRotation(f.val[i].q, gs[i].q)

\* a lookup with the instance name and scale of the last upsert
LookupOfLastUpsert ==
  /\ op.fn = "find"
  /\ last_upsert.some
  /\ op.inst = last_upsert.inst
  /\ op.scale = last_upsert.scale

\* C2 as stated: an upsert followed by a lookup with the same name and scale
\* returns the list just stored (up to 4-decimal rounding), both when the
\* upsert created the entry and when the entry existed at another canonical
\* scale.
C2_RoundTripEveryName ==
  ( /\ LookupOfLastUpsert
    /\ (last_upsert.created \/ last_upsert.canonical # last_upsert.scale) )
  => RoundTrips(found, last_upsert.grasps)

\* C2 amended: the round trip holds when the upsert created the entry, and
\* when the entry existed at another canonical scale for a name that
\* contains '::'.
C2_RoundTrip ==
  ( /\ LookupOfLastUpsert
    /\ \/ last_upsert.created
       \/ (HasSep(op.inst) /\ last_upsert.canonical # last_upsert.scale) )
  => RoundTrips(found, last_upsert.grasps)

\* a list with a position that rounding changes and a quaternion that comes
\* back negated, stored in an alternate slot and read back
C2_Witness ==
  /\ LookupOfLastUpsert
  /\ ~last_upsert.created
  /\ HasSep(op.inst)
  /\ last_upsert.canonical # last_upsert.scale
  /\ last_upsert.grasps = <<GraspB, GraspC>>
  /\ found.some
  /\ found.val[2].q = <<-5000, -5000, 5000, 5000>>

\* the case of C3: a lookup at a non-canonical scale that has a slot
AlternateScaleLookup ==
  /\ op.fn = "find"
  /\ op.inst \in Keys(db)
  /\ op.scale # Entry(db, op.inst).scale
  /\ HasSlot(Entry(db, op.inst), op.scale)

\* C3 as stated: for every instance name, a lookup at a non-canonical scale
\* that has a slot keyed str(scale) returns that slot's list, not rescaled.
C3_AlternateEveryName ==
  AlternateScaleLookup =>
    IsUnscaled(found, Entry(db, op.inst).other_scales[ScaleStr(op.scale)])

\* C3 amended: for every instance name that contains '::', a lookup at a
\* non-canonical scale that has a slot keyed str(scale) returns that slot's
\* list, not rescaled.
C3_AlternateHandleNames ==
  (AlternateScaleLookup /\ HasSep(op.inst)) =>
    IsUnscaled(found, Entry(db, op.inst).other_scales[ScaleStr(op.scale)])

C3_Witness ==
  /\ AlternateScaleLookup
  /\ HasSep(op.inst)
  /\ found.some
  /\ Entry(db, op.inst).other_scales[ScaleStr(op.scale)]
       # Entry(db, op.inst).grasps

\* the grasp list as persisted
Rounded(gs) == [i \in DOMAIN gs |-> Nice4(gs[i])]

\* C4: every instance name has exactly one entry; its name, grasps, scale and
\* datetime are those of the upsert that created it; later upserts of the
\* name only set slots of other_scales; a name once stored stays stored.
C4_CanonicalKept ==
  /\ \A i, j \in DOMAIN file.doc : file.doc[i].k = file.doc[j].k => i = j
  /\ \A n \in InstanceNames : first_upsert[n].some <=> n \in Keys(file.doc)
  /\ \A n \in Keys(file.doc) :
       LET e == Entry(file.doc, n)
           c == first_upsert[n]
       IN /\ e.name = (IF c.name = PyNone THEN "None" ELSE c.name)
          /\ e.grasps = Rounded(c.grasps)
          /\ e.datetime = c.now
          /\ e.scale = c.scale
          /\ DOMAIN e \subseteq {"name", "grasps", "datetime", "scale", "other_scales"}
          /\ ("other_scales" \in DOMAIN e) <=> (DOMAIN slot_upsert[n] # {})
          /\ "other_scales" \in DOMAIN e =>
               /\ DOMAIN e.other_scales = DOMAIN slot_upsert[n]
               /\ \A k \in DOMAIN e.other_scales :
                    e.other_scales[k] = Rounded(slot_upsert[n][k])

\* two instances stored, one of them upserted again at its canonical scale
\* and at another one
C4_Witness ==
  /\ op.fn = "add"
  /\ ~last_upsert.created
  /\ Len(file.doc) = 2
  /\ \E n \in Keys(file.doc) :
       /\ HasSlot(Entry(file.doc, n), Entry(file.doc, n).scale)
       /\ Entry(file.doc, n).other_scales[ScaleStr(Entry(file.doc, n).scale)]
            # Entry(file.doc, n).grasps

\* C7: after every upsert that writes, the file holds all entries of the
\* store, ordered by 'datetime' ascending.
C7_SortedByDatetime ==
  op.fn = "add" =>
    /\ file.exists
    /\ Len(file.doc) = Len(db)
    /\ \A n \in Keys(db) :
         n \in Keys(file.doc) /\ Entry(file.doc, n) = Entry(db, n)
    /\ \A i, j \in DOMAIN file.doc :
         i < j => file.doc[i].v.datetime <= file.doc[j].v.datetime

\* an entry created with an earlier timestamp than the entry stored before it
C7_Witness ==
  /\ op.fn = "add"
  /\ Len(db) = 2
  /\ db[1].v.datetime > db[2].v.datetime
  /\ file.doc[1].k = db[2].k

\* C14: add_grasp_in_db called with an empty grasp list changes neither the
\* store in memory nor the file: no entry, no slot, no rewrite.
C14_EmptyListNoOp ==
  [][ (n_adds' = n_adds + 1 /\ add_in'.grasps = <<>>) =>
        (db' = db /\ file' = file) ]_vars

\* an empty list given for a name that is stored, and for one that is not,
\* after a store was written
C14_Witness ==
  /\ op.fn = "add_noop"
  /\ add_in.some
  /\ add_in.grasps = <<>>
  /\ add_in.inst # NoName
  /\ file.exists
  /\ Len(db) = 1
  /\ file.doc = db

\* a stored grasp: six numbers, each a multiple of 1e-4
IsNice4(g) ==
  /\ Len(g) = 6
  /\ \A k \in 1..6 : g[k] % 10 = 0

AllNice4(gs) == \A i \in DOMAIN gs : IsNice4(gs[i])

\* C17: every grasp in the file, in a canonical list or in a slot of
\* other_scales, is a list of six numbers rounded to 4 decimals.
C17_StoredRounded ==
  \A i \in DOMAIN file.doc :
    LET e == file.doc[i].v
    IN /\ AllNice4(e.grasps)
       /\ "other_scales" \in DOMAIN e =>
            \A k \in DOMAIN e.other_scales : AllNice4(e.other_scales[k])

\* a canonical list and a slot, both given with components that are not
\* multiples of 1e-4
C17_Witness ==
  /\ op.fn = "add"
  /\ \E i \in DOMAIN file.doc :
       LET e == file.doc[i].v
       IN /\ first_upsert[file.doc[i].k].grasps = <<GraspB, GraspC>>
          /\ Len(e.grasps) = 2
          /\ "other_scales" \in DOMAIN e
          /\ \E k \in DOMAIN e.other_scales :
               /\ slot_upsert[file.doc[i].k][k] = <<GraspB, GraspC>>
               /\ Len(e.other_scales[k]) = 2

\* ------------------------------------------ properties of the grasp search
\* the fitted box of the current call
Extent == FittedExtent(call.body, call.scale)

\* the axis of a point that lies on one axis
AxisOf(point) == CHOOSE k \in 1..3 : point[k] # 0

\* the face direction of the grasp is along an axis of the largest extent
OnLongestAxis(g) == Extent[AxisOf(g.p)] = Max3(Extent)

\* the current call missed the database and has HANDLE_FILTER set
FilteredSearch == pc \in {"search", "done"} /\ fitted /\ call.handle_filter

\* C5 as stated: with HANDLE_FILTER set, every candidate that is validated or
\* returned has its face direction along the axis of the largest AABB extent.
C5_OnlyLongestAxis ==
  FilteredSearch =>
    /\ \A i \in DOMAIN validated : OnLongestAxis(validated[i].g)
    /\ \A i \in DOMAIN grasps : OnLongestAxis(grasps[i])

\* C5 amended: with HANDLE_FILTER set, a search (a call that missed the
\* database) never validates or returns a candidate whose face direction is
\* along an axis of the largest AABB extent: every candidate emitted has its
\* face direction along an axis whose extent is smaller than the largest.
C5_NeverLongestAxis ==
  FilteredSearch =>
    /\ \A i \in DOMAIN validated : ~OnLongestAxis(validated[i].g)
    /\ \A i \in DOMAIN grasps : ~OnLongestAxis(grasps[i])
    /\ pc = "done" => \A i \in DOMAIN ret.val : ~OnLongestAxis(ret.val[i])

C5_Witness ==
  /\ FilteredSearch
  /\ pc = "done"
  /\ Len(validated) > 0
  /\ Len(ret.val) > 0

Range(seq) == {seq[i] : i \in DOMAIN seq}

AllSteps == <<"open_gripper", "ikfast", "is_colliding", "close_gripper",
              "get_contact", "get_qpos">>

\* C6: set_gripper_pose returns a grasp exactly when IK succeeds, the open
\* gripper does not collide, the closed gripper touches the body and the
\* summed gripper joint position is at least 0.01; the checks are made in
\* this order and the first one that fails ends the call, so that the
\* gripper is closed only after the first two have passed.
C6_Validator ==
  last_check.some =>
    LET b == call.body
        f == last_check.f
        r == last_check.r
        ik == IkSolved(b, f, r)
        free == ~IsColliding(b, call.cluttered, f, r)
        touch == TouchesBody(b, f, r)
        q == GripperQpos(b, f, r)
        firm == Magnitude(q[1] + q[2]) >= GripperMinQpos
        steps == last_check.steps
    IN /\ last_check.grasp.some <=> (ik /\ free /\ touch /\ firm)
       /\ last_check.grasp.some => last_check.grasp.val = last_check.g
       /\ steps = SubSeq(AllSteps, 1, Len(steps))
       /\ "ikfast" \in Range(steps)
       /\ "is_colliding" \in Range(steps) <=> ik
       /\ "close_gripper" \in Range(steps) <=> (ik /\ free)
       /\ "get_contact" \in Range(steps) <=> (ik /\ free)
       /\ "get_qpos" \in Range(steps) <=> (ik /\ free /\ touch)
       /\ gripper = (IF ik /\ free THEN "closed" ELSE "open")

\* a candidate that only the open-gripper collision check rejects
C6_Witness ==
  /\ last_check.some
  /\ ~call.cluttered
  /\ IkSolved(call.body, last_check.f, last_check.r)
  /\ IsColliding(call.body, call.cluttered, last_check.f, last_check.r)
  /\ TouchesBody(call.body, last_check.f, last_check.r)
  /\ ~last_check.grasp.some
  /\ gripper = "open"
  /\ Len(grasps) > 0

\* the directions of the six faces, in the order of the face list
FaceDirs == << <<1, 0, 0>>, <<0, 1, 0>>, <<0, 0, 1>>,
               <<-1, 0, 0>>, <<0, -1, 0>>, <<0, 0, -1>> >>

\* the candidates of the current call: face number and orientation number
Candidates ==
  {c \in (1..6) \X (1..6) :
     /\ ~SkipsFace(faces[c[1]], Extent, call.handle_filter)
     /\ c[2] <= Len(Rots(FaceDirs[c[1]]))}

IsAccepted(v) == v.ok

\* the accepted candidates among those validated so far, in order
AcceptedSoFar ==
  LET acc == SelectSeq(validated, IsAccepted)
  IN [i \in DOMAIN acc |-> acc[i].g]

\* C8: a rejected candidate does not stop the search: a call that missed the
\* database validates every candidate of every retained face, in order, and
\* the list it returns and passes to add_grasp_in_db is the subsequence of
\* the accepted ones.
C8_SearchContinues ==
  (pc \in {"search", "done"} /\ fitted) =>
    /\ \A i, j \in DOMAIN validated :
         i < j => \/ validated[i].f < validated[j].f
                  \/ (validated[i].f = validated[j].f
                      /\ validated[i].r < validated[j].r)
    /\ \A i \in DOMAIN validated :
         validated[i].ok <=>
           /\ IkSolved(call.body, validated[i].f, validated[i].r)
           /\ ~IsColliding(call.body, call.cluttered, validated[i].f, validated[i].r)
           /\ TouchesBody(call.body, validated[i].f, validated[i].r)
           /\ LET q == GripperQpos(call.body, validated[i].f, validated[i].r)
              IN Magnitude(q[1] + q[2]) >= GripperMinQpos
    /\ grasps = AcceptedSoFar
    /\ pc = "done" =>
         /\ {<<validated[i].f, validated[i].r>> : i \in DOMAIN validated} = Candidates
         /\ ret = Some(AcceptedSoFar)
         /\ add_arg = Some(AcceptedSoFar)

\* a finished search in which a candidate was accepted after another one had
\* been rejected
C8_Witness ==
  /\ pc = "done"
  /\ fitted
  /\ Len(validated) = 26
  /\ \E i, j \in DOMAIN validated :
       i < j /\ ~validated[i].ok /\ validated[j].ok
  /\ Len(ret.val) > 0
  /\ Len(ret.val) < Len(validated)

\* C9: when the lookup finds grasps for the instance name and the loaded
\* scale, get_grasp_poses returns them and neither fits the box, nor
\* validates a candidate, nor writes the database file.
C9_CacheHit ==
  (pc = "done" /\ found.some) =>
    /\ ~fitted
    /\ validated = <<>>
    /\ ~last_check.some
    /\ ~add_arg.some
    /\ file = file0
    /\ found = FindGraspInDb(LoadDb(file0), call.body.inst, call.scale)
    /\ ret = found

\* a hit that returns the cached grasps rescaled
C9_Witness ==
  /\ pc = "done"
  /\ found.some
  /\ call.scale # Entry(db, call.body.inst).scale
  /\ Len(ret.val) > 0

\* the candidates validated on face number f, in order
OnFace(f) ==
  LET IsOnFace(v) == v.g.p = faces[f]
  IN SelectSeq(validated, IsOnFace)

\* C10: with faces=None and HANDLE_FILTER off, the face points are
\* (+-(w/2+g), 0, 0), (0, +-(l/2+g), 0), (0, 0, +-(h/2+g)), without the box
\* centre; each face gives one candidate per orientation of its table, at the
\* face point, at most 36 in all; for the extent (0.16, 0.16, 0.08) and
\* g = 0.02 the face points are +-(0.10, 0, 0), +-(0, 0.10, 0), +-(0, 0, 0.06).
C10_FacePoints ==
  (pc \in {"search", "done"} /\ fitted /\ ~call.handle_filter) =>
    /\ Len(faces) = 6
    /\ \A k \in 1..3 :
         /\ 2 * faces[k][k] = Extent[k] + 2 * GraspLength
         /\ faces[k + 3][k] = 0 - faces[k][k]
         /\ \A m \in (1..3) \ {k} : faces[k][m] = 0 /\ faces[k + 3][m] = 0
    /\ Extent = <<16000, 16000, 8000>> =>
         faces = << <<10000, 0, 0>>, <<0, 10000, 0>>, <<0, 0, 6000>>,
                    <<-10000, 0, 0>>, <<0, -10000, 0>>, <<0, 0, -6000>> >>
    /\ Len(validated) <= 36
    /\ \A i \in DOMAIN validated : validated[i].g.p \in Range(faces)
    /\ pc = "done" =>
         \A f \in 1..6 :
           /\ Len(OnFace(f)) = Len(Rots(FaceDirs[f]))
           /\ \A r \in DOMAIN OnFace(f) :
                OnFace(f)[r].g.q = QuatFromEuler(Rots(FaceDirs[f])[r])

\* the scenario of the spec, searched to the end
C10_Witness ==
  /\ pc = "done"
  /\ fitted
  /\ ~call.handle_filter
  /\ Extent = <<16000, 16000, 8000>>
  /\ faces[1] = <<10000, 0, 0>>
  /\ faces[6] = <<0, 0, -6000>>
  /\ Len(validated) = 26

\* the candidates validated so far: face number and orientation number
ValidatedSoFar == {<<validated[i].f, validated[i].r>> : i \in DOMAIN validated}

\* C15: with no instance name the lookup misses, the candidates are
\* generated and validated all the same and the accepted ones returned, and
\* add_grasp_in_db changes neither the store nor the file.
C15_NoInstanceName ==
  (pc \in {"search", "done"} /\ call.body.inst = NoName) =>
    /\ ~found.some
    /\ fitted
    /\ grasps = AcceptedSoFar
    /\ pc = "done" =>
         /\ file = CreateDbFile(file0)
         /\ db = LoadDb(CreateDbFile(file0))
         /\ ValidatedSoFar = Candidates
         /\ add_arg = Some(AcceptedSoFar)
         /\ ret = Some(AcceptedSoFar)

\* a call without instance name that returns grasps, on a store that holds
\* an entry
C15_Witness ==
  /\ pc = "done"
  /\ call.body.inst = NoName
  /\ Len(ret.val) > 0
  /\ Len(file.doc) > 0
  /\ file = file0
  /\ db = file.doc

\* the slots of an entry
Slots(all_data) ==
  IF "other_scales" \in DOMAIN all_data THEN all_data.other_scales ELSE << >>

\* the canonical fields of an entry
Canonical(all_data) ==
  [name |-> all_data.name, grasps |-> all_data.grasps,
   datetime |-> all_data.datetime, scale |-> all_data.scale]

\* C19: in the calls of one process on a store that started empty, the file
\* is only written after a lookup miss; a canonical entry or a slot, once in
\* the file, stays as written; no slot has the key of its entry's canonical
\* scale; an entry whose name has no '::' has no slot.
C19_WrittenOnce ==
  [][ /\ file' # file => ~found'.some
      /\ \A n \in Keys(file.doc) :
           /\ n \in Keys(file'.doc)
           /\ Canonical(Entry(file'.doc, n)) = Canonical(Entry(file.doc, n))
           /\ \A k \in DOMAIN Slots(Entry(file.doc, n)) :
                /\ k \in DOMAIN Slots(Entry(file'.doc, n))
                /\ Slots(Entry(file'.doc, n))[k] = Slots(Entry(file.doc, n))[k]
      /\ \A n \in Keys(file'.doc) :
           /\ ScaleStr(Entry(file'.doc, n).scale)
                \notin DOMAIN Slots(Entry(file'.doc, n))
           /\ ~HasSep(n) => "other_scales" \notin DOMAIN Entry(file'.doc, n)
    ]_vars

\* a name with '::' stored with a slot, then looked up again at the slot's
\* scale and at the canonical scale
C19_Witness ==
  /\ pc = "done"
  /\ found.some
  /\ HasSep(call.body.inst)
  /\ Slots(Entry(file.doc, call.body.inst)) # << >>
  /\ n_calls >= 3

\* ----------------------------------------- properties of the scale sampler
Larger(a, b) == IF a >= b THEN a ELSE b

Smaller(a, b) == IF a <= b THEN a ELSE b

\* the extent a range constrains: 'length' is the larger of axes 0 and 1,
\* 'width' the smaller, 'height' axis 2, x and y axes 0 and 1
ConstrainedExtent(k, extent) ==
  CASE k = "length-range" -> Larger(extent[1], extent[2])
    [] k = "width-range" -> Smaller(extent[1], extent[2])
    [] k = "height-range" -> extent[3]
    [] k = "x-range" -> extent[1]
    [] k = "y-range" -> extent[2]

\* bound_min <= extent * s <= bound_max for the range k
MeetsConstraint(k, category, extent, scale) ==
  LET r == Constraints(category)[k]
      e == ConstrainedExtent(k, extent)
  IN /\ r[1] * scale[2] <= e * scale[1]
     /\ e * scale[1] <= r[2] * scale[2]

\* some scale meets every range: the intervals [min/extent, max/extent]
\* intersect pairwise
Satisfiable(category, extent) ==
  \A k1, k2 \in DOMAIN Constraints(category) :
    Constraints(category)[k1][1] * ConstrainedExtent(k2, extent)
      <= Constraints(category)[k2][2] * ConstrainedExtent(k1, extent)

Constrained == sc.called /\ sc.category \in ModelCategories

\* C11: for a category with range constraints that the extent can satisfy,
\* the scale returned meets every constraint, 'length' being the larger of
\* axes 0 and 1 and 'width' the smaller.
C11_ScaleMeetsConstraints ==
  (Constrained /\ Satisfiable(sc.category, sc.extent)) =>
    /\ sc.scale[2] > 0
    /\ \A k \in DOMAIN Constraints(sc.category) :
         MeetsConstraint(k, sc.category, sc.extent, sc.scale)

\* two ranges, on an extent whose axis 0 is the shorter one, met by a scale
\* strictly inside the interval
C11_Witness ==
  /\ Constrained
  /\ sc.category = "FoldingKnife"
  /\ sc.extent[1] < sc.extent[2]
  /\ Satisfiable(sc.category, sc.extent)
  /\ sc.scale[1] * sc.extent[2] > 6 * sc.scale[2]
  /\ MeetsConstraint("width-range", sc.category, sc.extent, sc.scale)

\* the largest lower bound and the smallest upper bound of the scale
LowerBounds(category, extent) ==
  {<<Constraints(category)[k][1], ConstrainedExtent(k, extent)>> :
     k \in DOMAIN Constraints(category)}

UpperBounds(category, extent) ==
  {<<Constraints(category)[k][2], ConstrainedExtent(k, extent)>> :
     k \in DOMAIN Constraints(category)}

\* C18: when the scale intervals of the constraints do not intersect, a
\* scale is returned all the same; it lies between the inverted bounds and
\* violates at least one constraint.
C18_InvertedInterval ==
  (Constrained /\ ~Satisfiable(sc.category, sc.extent)) =>
    /\ sc.scale[2] > 0
    /\ \E hi \in UpperBounds(sc.category, sc.extent) :
         /\ \A c \in UpperBounds(sc.category, sc.extent) : RatLeq(hi, c)
         /\ RatLeq(hi, sc.scale)
    /\ \E lo \in LowerBounds(sc.category, sc.extent) :
         /\ \A c \in LowerBounds(sc.category, sc.extent) : RatLeq(c, lo)
         /\ RatLeq(sc.scale, lo)
    /\ \E k \in DOMAIN Constraints(sc.category) :
         ~MeetsConstraint(k, sc.category, sc.extent, sc.scale)

\* a Remote as wide as it is long: the scale is drawn between 0.22/e and
\* 0.06/e, strictly inside
C18_Witness ==
  /\ Constrained
  /\ sc.category = "Remote"
  /\ sc.extent[1] = sc.extent[2]
  /\ ~Satisfiable(sc.category, sc.extent)
  /\ sc.scale[1] * sc.extent[1] < 22 * sc.scale[2]
  /\ sc.scale[1] * sc.extent[1] > 6 * sc.scale[2]

\* ------------------------------------------ properties of the shared file
\* no process is between its lookup and the end of its upsert
Quiescent == \A p \in Procs : procs[p].pc \in {"start", "done"}

\* the entry or slot w is in the file
InFile(w) ==
  /\ w.inst \in Keys(file.doc)
  /\ ~w.canonical =>
       ScaleStr(w.scale) \in DOMAIN Slots(Entry(file.doc, w.inst))

\* C13: when the lookup-upsert sequences of the two processes do not
\* interleave, every entry and every slot a process has written is in the
\* file once the processes are done; when they interleave, an entry or slot
\* one process wrote can be missing from the file.
C13_SerializedKeepsAll ==
  (Quiescent /\ ~overlap) => \A w \in written : InFile(w)

\* a lost update: both processes are done, their sequences interleaved, and
\* something one of them wrote is not in the file
C13_Witness ==
  /\ Quiescent
  /\ overlap
  /\ file.exists
  /\ \E w \in written : ~InFile(w)

\* -------------------------------------- properties of files of earlier runs
\* a lookup on a missing file gives an empty store and no grasps
MissingFileIsEmptyStore ==
  (op.fn = "find" /\ ~file.exists) =>
    (~raised /\ ~found.some /\ db = <<>>)

\* a lookup on a file that is not JSON gives an empty store and no grasps
UnparsableFileIsEmptyStore ==
  (op.fn = "find" /\ file.exists /\ ~parsable) =>
    (~raised /\ ~found.some /\ db = <<>>)

\* C12: find_grasp_in_db takes a missing file and a file that cannot be
\* parsed for an empty store: it does not fail, finds nothing and returns an
\* empty store, and the next upsert that writes leaves a readable file that
\* holds the store.
C12_UnreadableIsEmpty ==
  /\ MissingFileIsEmptyStore
  /\ UnparsableFileIsEmptyStore
  /\ op.fn = "add" => (file.exists /\ parsable /\ file.doc = SortByDatetime(db))

\* the list the lookup of the last find_grasp_in_db reads
ListRead ==
  LET e == Entry(file.doc, op.inst)
  IN IF ~HasSep(op.inst) \/ ("scale" \in DOMAIN e /\ op.scale = e.scale)
     THEN e.grasps
     ELSE e.other_scales[ScaleStr(op.scale)]

\* the factor applied to the positions of the list read
FactorRead ==
  LET e == Entry(file.doc, op.inst)
  IN IF (~HasSep(op.inst) \/ ("scale" \in DOMAIN e /\ op.scale = e.scale))
        /\ "scale" \in DOMAIN e
     THEN <<op.scale, e.scale>>
     ELSE <<1, 1>>

\* point and angles, or point and quaternion, of a stored grasp
StoredPoint(g) == IF Len(g) = 6 THEN SubSeq(g, 1, 3) ELSE g[1]

StoredAngles(g) == IF Len(g) = 6 THEN SubSeq(g, 4, 6) ELSE g[2]

\* C16: whichever of the three encodings the list read is in, each grasp is
\* returned as a point of 3 numbers and a quaternion of 4; euler angles are
\* converted to the quaternion, a stored quaternion is returned as it is.
C16_ThreeEncodings ==
  (op.fn = "find" /\ ~raised /\ found.some) =>
    /\ Len(found.val) = Len(ListRead)
    /\ \A i \in DOMAIN found.val :
         LET g == ListRead[i]
             f == found.val[i]
         IN /\ Len(f.q) = 4
            /\ Len(f.p) = 3
            /\ \A k \in 1..3 :
                 f.p[k][1] * FactorRead[2]
                   = StoredPoint(g)[k] * FactorRead[1] * f.p[k][2]
            /\ f.q = IF Len(StoredAngles(g)) = 3
                     THEN QuatFromEuler(StoredAngles(g))
                     ELSE StoredAngles(g)

\* a list of (point, euler) pairs read from a slot of an entry whose
\* canonical list holds (point, quat) pairs
C16_Witness ==
  /\ op.fn = "find"
  /\ ~raised
  /\ found.some
  /\ HasSep(op.inst)
  /\ Len(ListRead[1]) = 2
  /\ Len(ListRead[1][2]) = 3
  /\ Len(Entry(file.doc, op.inst).grasps[1][2]) = 4
====
